---- MODULE Spec2Model ----
(***************************************************************************)
(* Model of forticlient-connector.py: the status classifier                *)
(* (identify_vpn_state), the startup connection routine (connect_to_vpn),  *)
(* the monitoring loop (monitor_vpn_connection) and the main block.        *)
(*                                                                         *)
(* The UI-automation library is the environment: every call into it can    *)
(* return any of its outcomes or raise.  The evidence a probe collects is  *)
(* a record of what the finders returned; the classifier is computed from  *)
(* it exactly as the source computes it, on real strings.                  *)
(***************************************************************************)
EXTENDS Integers, Sequences, FiniteSets, TLC

VARIABLES
    pc,                        \* position in the program
    app,                       \* "unbound" | "app" | "None"
    main_window,               \* "unbound" | "None" | "window"
    attempt,                   \* loop variable of the current for-loop
    connection_status,         \* connect_to_vpn: "None" | "connected" | "disconnected"
    connect_button,            \* connect_to_vpn: TRUE when a Connect element is held
    vpn_state,                 \* last result of identify_vpn_state
    ret,                       \* value returned by connect_to_vpn: "none" | "pair" | "NonePair"
    exit_code,                 \* "running" while the process lives, then its exit status
    ALWAYS_SET_FOCUS,          \* module global
    consecutive_focus_needed,  \* monitor local
    need_to_set_focus,         \* monitor local
    need_to_click_connect,     \* monitor local
    trace,                     \* events of the current connect phase / monitoring cycle
    light_hist,                \* probe-stage events of the last cycles, newest last
    evidence,                  \* classifier harness: the evidence handed to the classifier
    result                     \* classifier harness: what the classifier returned

vars == <<pc, app, main_window, attempt, connection_status, connect_button,
          vpn_state, ret, exit_code, ALWAYS_SET_FOCUS,
          consecutive_focus_needed, need_to_set_focus, need_to_click_connect, trace, light_hist,
          evidence, result>>

progVars == <<pc, app, main_window, attempt, connection_status, connect_button,
              vpn_state, ret, exit_code, ALWAYS_SET_FOCUS,
              consecutive_focus_needed, need_to_set_focus, need_to_click_connect, trace, light_hist>>

-----------------------------------------------------------------------------
(* Bounds *)

MaxHierButtons == 1   \* buttons reported by explore_pane_hierarchy
MaxHierTexts == 1     \* text elements reported by explore_pane_hierarchy
MaxCounter == 5       \* cap on consecutive_focus_needed in the model

-----------------------------------------------------------------------------
(* Strings *)

\* Python's `needle in text` on str: case-sensitive substring test.
Contains(text, needle) ==
    \E k \in 1..(Len(text) - Len(needle) + 1) :
        SubSeq(text, k, k + Len(needle) - 1) = needle

RECURSIVE Join(_)
\* " ".join(texts)
Join(texts) ==
    IF texts = <<>> THEN ""
    ELSE IF Len(texts) = 1 THEN texts[1]
    ELSE texts[1] \o " " \o Join(Tail(texts))

\* True when x is an element of the list s (Python's `x in list`).
InList(x, s) == \E i \in 1..Len(s) : s[i] = x

-----------------------------------------------------------------------------
(* identify_vpn_state *)

connected_indicators ==
    <<"VPN Connected", "Disconnect", "Duration", "Bytes Received",
      "Bytes Sent", "IP Address", "Username">>

disconnected_indicators ==
    <<"Not Connected", "VPN Disconnected", "Connect">>

\* What a finder and the is_enabled() call on its result came back with.
FinderOutcome == {"none", "enabled", "disabled", "raises"}

\* Texts an element of the window can carry.
TextVocabulary ==
    {"VPN Connected", "Not Connected", "VPN Disconnected", "Duration",
     "Bytes Sent", "Bytes Received", "IP Address", "Username", "Connect",
     "Disconnect", "FortiClient VPN"}

ButtonTexts == {"Disconnect", "Connect", "Cancel"}

HierButton == [text : ButtonTexts, enabled : BOOLEAN]

SeqUpTo(S, n) == UNION {[1..k -> S] : k \in 0..n}

\* One probe's raw signals.
EvidenceSet ==
    [disc_direct : FinderOutcome,
     conn_direct : FinderOutcome,
     h_buttons : SeqUpTo(HierButton, MaxHierButtons),
     h_texts : SeqUpTo(TextVocabulary, MaxHierTexts),
     wt_raises : {FALSE},
     window_text : TextVocabulary \cup {""}]
    \cup
    [disc_direct : FinderOutcome,
     conn_direct : FinderOutcome,
     h_buttons : SeqUpTo(HierButton, MaxHierButtons),
     h_texts : SeqUpTo(TextVocabulary, MaxHierTexts),
     wt_raises : {TRUE},
     window_text : {""}]

RECURSIVE MergeHierButtons(_, _)
\* The loop over hierarchy_info['buttons']: a later button overrides an
\* earlier one and the directly found control.
MergeHierButtons(buttons, flags) ==
    IF buttons = <<>> THEN flags
    ELSE LET b == Head(buttons)
             f == IF b.text = "Disconnect"
                  THEN [flags EXCEPT !.disconnect_button_found = TRUE,
                                     !.disconnect_button_enabled = b.enabled]
                  ELSE IF b.text = "Connect"
                  THEN [flags EXCEPT !.connect_button_found = TRUE,
                                     !.connect_button_enabled = b.enabled]
                  ELSE flags
         IN MergeHierButtons(Tail(buttons), f)

\* The four button flags as they stand when the evidence is analysed.
ButtonFlags(ev) ==
    MergeHierButtons(ev.h_buttons,
        [disconnect_button_found |-> ev.disc_direct # "none",
         disconnect_button_enabled |-> ev.disc_direct = "enabled",
         connect_button_found |-> ev.conn_direct # "none",
         connect_button_enabled |-> ev.conn_direct = "enabled"])

\* full_text: hierarchy texts joined, then the window text appended.
FullText(ev) ==
    IF ev.wt_raises THEN Join(ev.h_texts)
    ELSE Join(ev.h_texts) \o " " \o ev.window_text

Matched(indicators, text) ==
    SelectSeq(indicators, LAMBDA ind : Contains(text, ind))

FoundConnected(ev) ==
    LET fc == Matched(connected_indicators, FullText(ev))
    IN IF ButtonFlags(ev).disconnect_button_found /\ ~InList("Disconnect", fc)
       THEN Append(fc, "Disconnect") ELSE fc

FoundDisconnected(ev) ==
    LET fd == Matched(disconnected_indicators, FullText(ev))
    IN IF ButtonFlags(ev).connect_button_found /\ ~InList("Connect", fd)
       THEN Append(fd, "Connect") ELSE fd

Verdict(identified, status, details) ==
    [identified |-> identified, status |-> status, details |-> details]

NoVerdict == Verdict(FALSE, "none", "")

\* Mutant of ButtonVerdict: the two button rules in the opposite order.
ButtonVerdict_connect_first(f) ==
    IF f.connect_button_found /\ f.connect_button_enabled
    THEN Verdict(TRUE, "disconnected", "Connect button found and enabled")
    ELSE IF f.disconnect_button_found /\ f.disconnect_button_enabled
    THEN Verdict(TRUE, "connected", "Disconnect button found and enabled")
    ELSE NoVerdict

\* Mutant of ButtonVerdict: the Connect-button rule is missing.
ButtonVerdict_no_connect_rule(f) ==
    IF f.disconnect_button_found /\ f.disconnect_button_enabled
    THEN Verdict(TRUE, "connected", "Disconnect button found and enabled")
    ELSE NoVerdict

\* Mutant of ButtonVerdict: rule 2 sets the status but not the flag.
ButtonVerdict_connect_not_identified(f) ==
    IF f.disconnect_button_found /\ f.disconnect_button_enabled
    THEN Verdict(TRUE, "connected", "Disconnect button found and enabled")
    ELSE IF f.connect_button_found /\ f.connect_button_enabled
    THEN Verdict(FALSE, "disconnected", "Connect button found and enabled")
    ELSE NoVerdict

\* Lines 945-952: the two rules decided by an enabled button.
ButtonVerdict(f) ==
    IF f.disconnect_button_found /\ f.disconnect_button_enabled
    THEN Verdict(TRUE, "connected", "Disconnect button found and enabled")
    ELSE IF f.connect_button_found /\ f.connect_button_enabled
    THEN Verdict(TRUE, "disconnected", "Connect button found and enabled")
    ELSE NoVerdict

\* Mutant of TextVerdict: 3 connected indicators are required.
TextVerdict_three_indicators(ev) ==
    LET f == ButtonFlags(ev)
        full_text == FullText(ev)
        found_connected == FoundConnected(ev)
        found_disconnected == FoundDisconnected(ev)
    IN IF Len(found_connected) >= 3
       THEN Verdict(TRUE, "connected", "Text indicators suggest connected")
       ELSE IF Len(found_disconnected) >= 1 /\ found_connected = <<>>
       THEN Verdict(TRUE, "disconnected", "Text indicators suggest disconnected")
       ELSE IF Contains(full_text, "VPN Connected")
       THEN Verdict(TRUE, "connected", "Found explicit 'VPN Connected' text")
       ELSE IF Contains(full_text, "Duration")
               /\ (Contains(full_text, "Bytes") \/ Contains(full_text, "IP Address"))
       THEN Verdict(TRUE, "connected", "Connection stats found in window text")
       ELSE IF f.disconnect_button_found
       THEN Verdict(TRUE, "connected", "Disconnect button present (enabled status unclear)")
       ELSE Verdict(FALSE, "unknown", "Content pane found but status unclear")

\* Mutant of TextVerdict: with nothing to go on the window is taken
\* to be disconnected.
TextVerdict_default_disconnected(ev) ==
    LET f == ButtonFlags(ev)
        full_text == FullText(ev)
        found_connected == FoundConnected(ev)
        found_disconnected == FoundDisconnected(ev)
    IN IF Len(found_connected) >= 2
       THEN Verdict(TRUE, "connected", "Text indicators suggest connected")
       ELSE IF Len(found_disconnected) >= 1 /\ found_connected = <<>>
       THEN Verdict(TRUE, "disconnected", "Text indicators suggest disconnected")
       ELSE IF Contains(full_text, "VPN Connected")
       THEN Verdict(TRUE, "connected", "Found explicit 'VPN Connected' text")
       ELSE IF Contains(full_text, "Duration")
               /\ (Contains(full_text, "Bytes") \/ Contains(full_text, "IP Address"))
       THEN Verdict(TRUE, "connected", "Connection stats found in window text")
       ELSE IF f.disconnect_button_found
       THEN Verdict(TRUE, "connected", "Disconnect button present (enabled status unclear)")
       ELSE Verdict(TRUE, "disconnected", "No connection indicators found")

\* Mutant of TextVerdict: 2 disconnected indicators are required.
TextVerdict_two_disconnected(ev) ==
    LET f == ButtonFlags(ev)
        full_text == FullText(ev)
        found_connected == FoundConnected(ev)
        found_disconnected == FoundDisconnected(ev)
    IN IF Len(found_connected) >= 2
       THEN Verdict(TRUE, "connected", "Text indicators suggest connected")
       ELSE IF Len(found_disconnected) >= 2 /\ found_connected = <<>>
       THEN Verdict(TRUE, "disconnected", "Text indicators suggest disconnected")
       ELSE IF Contains(full_text, "VPN Connected")
       THEN Verdict(TRUE, "connected", "Found explicit 'VPN Connected' text")
       ELSE IF Contains(full_text, "Duration")
               /\ (Contains(full_text, "Bytes") \/ Contains(full_text, "IP Address"))
       THEN Verdict(TRUE, "connected", "Connection stats found in window text")
       ELSE IF f.disconnect_button_found
       THEN Verdict(TRUE, "connected", "Disconnect button present (enabled status unclear)")
       ELSE Verdict(FALSE, "unknown", "Content pane found but status unclear")

\* Mutant of TextVerdict: a present Disconnect control whose enabled
\* state is unclear decides nothing.
TextVerdict_no_last_resort(ev) ==
    LET f == ButtonFlags(ev)
        full_text == FullText(ev)
        found_connected == FoundConnected(ev)
        found_disconnected == FoundDisconnected(ev)
    IN IF Len(found_connected) >= 2
       THEN Verdict(TRUE, "connected", "Text indicators suggest connected")
       ELSE IF Len(found_disconnected) >= 1 /\ found_connected = <<>>
       THEN Verdict(TRUE, "disconnected", "Text indicators suggest disconnected")
       ELSE IF Contains(full_text, "VPN Connected")
       THEN Verdict(TRUE, "connected", "Found explicit 'VPN Connected' text")
       ELSE IF Contains(full_text, "Duration")
               /\ (Contains(full_text, "Bytes") \/ Contains(full_text, "IP Address"))
       THEN Verdict(TRUE, "connected", "Connection stats found in window text")
       ELSE Verdict(FALSE, "unknown", "Content pane found but status unclear")

\* Lines 953-980: the rules decided by text indicators, then the last resort.
TextVerdict(ev) ==
    LET f == ButtonFlags(ev)
        full_text == FullText(ev)
        found_connected == FoundConnected(ev)
        found_disconnected == FoundDisconnected(ev)
    IN IF Len(found_connected) >= 2
       THEN Verdict(TRUE, "connected", "Text indicators suggest connected")
       ELSE IF Len(found_disconnected) >= 1 /\ found_connected = <<>>
       THEN Verdict(TRUE, "disconnected", "Text indicators suggest disconnected")
       ELSE IF Contains(full_text, "VPN Connected")
       THEN Verdict(TRUE, "connected", "Found explicit 'VPN Connected' text")
       ELSE IF Contains(full_text, "Duration")
               /\ (Contains(full_text, "Bytes") \/ Contains(full_text, "IP Address"))
       THEN Verdict(TRUE, "connected", "Connection stats found in window text")
       ELSE IF f.disconnect_button_found
       THEN Verdict(TRUE, "connected", "Disconnect button present (enabled status unclear)")
       ELSE Verdict(FALSE, "unknown", "Content pane found but status unclear")

identify_vpn_state(ev) ==
    LET by_button == ButtonVerdict(ButtonFlags(ev))
    IN IF by_button # NoVerdict THEN by_button ELSE TextVerdict(ev)

\* result = {"identified": False, "status": "unknown", "details": ""}
InitialResult == Verdict(FALSE, "unknown", "")

\* The evidence a probe of the running program can collect, and the verdicts
\* identify_vpn_state gives on it.
ProbeEvidence ==
    [disc_direct : FinderOutcome,
     conn_direct : FinderOutcome,
     h_buttons : {<<>>},
     h_texts : {<<>>},
     wt_raises : {FALSE},
     window_text : {"", "VPN Connected"}]

ProbeVerdicts == {identify_vpn_state(ev) : ev \in ProbeEvidence}

-----------------------------------------------------------------------------
(* monitor_vpn_connection *)

max_consecutive_focus == 3

\* Keep the newest max_consecutive_focus probe-stage events.
Remember(hist, event) ==
    LET h == Append(hist, event)
    IN IF Len(h) > max_consecutive_focus
       THEN SubSeq(h, Len(h) - max_consecutive_focus + 1, Len(h))
       ELSE h

\* Mutant of NeedFocusAtStart: the global setting is ignored.
NeedFocusAtStart_minimized_only(always, minimized) == minimized

\* Mutant of NeedFocusAtStart: a restored window does not force the focus.
NeedFocusAtStart_global_only(always, minimized) == always

\* Lines 1282-1290: need_to_set_focus starts as the global setting and is
\* forced on when the window had to be restored.
NeedFocusAtStart(always, minimized) == always \/ minimized

\* Mutant of CounterAfterLight: a disconnected verdict does not reset.
CounterAfterLight_no_reset_on_disconnected(counter, vs) ==
    IF vs.identified
    THEN IF vs.status = "connected" THEN 0 ELSE counter
    ELSE counter + 1

\* Mutant of CounterAfterLight: a connected verdict does not reset.
CounterAfterLight_no_reset_on_connected(counter, vs) ==
    IF vs.identified
    THEN IF vs.status = "disconnected" THEN 0 ELSE counter
    ELSE counter + 1

\* Mutant of CounterAfterLight: a disconnected verdict counts as a probe that
\* needed focus.
CounterAfterLight_counts_disconnected(counter, vs) ==
    IF vs.identified
    THEN IF vs.status = "connected" THEN 0
         ELSE IF vs.status = "disconnected" THEN counter + 1 ELSE counter
    ELSE counter + 1

\* Lines 1301-1313: consecutive_focus_needed after a light probe that
\* returned vs.
CounterAfterLight(counter, vs) ==
    IF vs.identified
    THEN IF vs.status \in {"connected", "disconnected"} THEN 0 ELSE counter
    ELSE counter + 1

\* Mutant of EscalatedNextPc: anything but connected leads to the click.
EscalatedNextPc_click_unless_connected(vs) ==
    IF vs.identified /\ vs.status = "connected" THEN "mon_sleep" ELSE "mon_click"

\* Lines 1338-1353: what the cycle does on the verdict of the focused probe.
EscalatedNextPc(vs) ==
    IF vs.identified /\ vs.status = "disconnected" THEN "mon_click" ELSE "mon_sleep"

\* Mutant of FlipCondition: the threshold is compared with > instead of >=.
FlipCondition_off_by_one(counter, always) ==
    counter > max_consecutive_focus /\ ~always

\* Line 1317: the condition under which the global is switched on.
FlipCondition(counter, always) ==
    counter >= max_consecutive_focus /\ ~always

\* Lines 1279-1285: what app.window(...) and is_minimized() can come back
\* with; on a stale handle no window is found.
LookupOutcomes(handle) ==
    IF handle = "stale"
    THEN {"lookup_raises"}
    ELSE {"lookup_raises", "not_minimized", "restored", "restore_raises"}

\* Lines 1279-1291: window lookup, minimized check and restore.
MonitorCycleStart ==
    /\ pc = "mon_cycle"
    /\ \E outcome \in LookupOutcomes(app) :
        /\ main_window' = IF outcome = "lookup_raises" THEN main_window ELSE "window"
        /\ CASE outcome = "lookup_raises" ->
                  /\ pc' = "mon_except"
                  /\ trace' = <<"lookup_raises">>
                  /\ UNCHANGED <<need_to_set_focus, need_to_click_connect,
                                 consecutive_focus_needed, light_hist>>
             [] outcome = "restore_raises" ->
                  /\ pc' = "mon_except"
                  /\ trace' = <<"lookup", "minimized", "restore_raises">>
                  /\ need_to_set_focus' = ALWAYS_SET_FOCUS
                  /\ need_to_click_connect' = FALSE
                  /\ UNCHANGED <<consecutive_focus_needed, light_hist>>
             [] outcome = "restored" ->
                  /\ pc' = IF NeedFocusAtStart(ALWAYS_SET_FOCUS, TRUE)
                           THEN "mon_focus" ELSE "mon_light"
                  /\ trace' = <<"lookup", "minimized", "restore">>
                  /\ need_to_set_focus' = NeedFocusAtStart(ALWAYS_SET_FOCUS, TRUE)
                  /\ need_to_click_connect' = FALSE
                  /\ consecutive_focus_needed' = 0
                  /\ light_hist' = Remember(light_hist, "restored")
             [] outcome = "not_minimized" ->
                  /\ pc' = IF NeedFocusAtStart(ALWAYS_SET_FOCUS, FALSE)
                           THEN "mon_focus" ELSE "mon_light"
                  /\ trace' = <<"lookup">>
                  /\ need_to_set_focus' = NeedFocusAtStart(ALWAYS_SET_FOCUS, FALSE)
                  /\ need_to_click_connect' = FALSE
                  /\ light_hist' = IF NeedFocusAtStart(ALWAYS_SET_FOCUS, FALSE)
                                   THEN Remember(light_hist, "forced")
                                   ELSE light_hist
                  /\ UNCHANGED consecutive_focus_needed
    /\ UNCHANGED <<app, attempt, connection_status, connect_button, vpn_state,
                   ret, exit_code, ALWAYS_SET_FOCUS, evidence, result>>

\* Mutant of MonitorLightProbe: while the last verdict is connected the probe
\* is skipped and the cycle goes straight to the wait.
MonitorLightProbe_trusts_last_verdict ==
    /\ pc = "mon_light"
    /\ IF vpn_state.status = "connected"
       THEN /\ pc' = "mon_sleep"
            /\ UNCHANGED <<app, main_window, attempt, connection_status,
                           connect_button, vpn_state, ret, exit_code,
                           ALWAYS_SET_FOCUS, consecutive_focus_needed,
                           need_to_set_focus, need_to_click_connect, trace,
                           light_hist, evidence, result>>
       ELSE
            /\ \/ \E vs \in ProbeVerdicts :
                    /\ CounterAfterLight(consecutive_focus_needed, vs) <= MaxCounter
                    /\ vpn_state' = vs
                    /\ trace' = Append(trace, "light:" \o vs.status)
                    /\ light_hist' = Remember(light_hist, vs.status)
                    /\ consecutive_focus_needed' =
                          CounterAfterLight(consecutive_focus_needed, vs)
                    /\ need_to_click_connect' =
                          IF vs.identified /\ vs.status = "disconnected"
                          THEN TRUE ELSE need_to_click_connect
                    /\ need_to_set_focus' =
                          IF vs.identified /\ vs.status # "disconnected"
                          THEN need_to_set_focus ELSE TRUE
                    /\ ALWAYS_SET_FOCUS' =
                          IF ~vs.identified
                             /\ FlipCondition(consecutive_focus_needed', ALWAYS_SET_FOCUS)
                          THEN TRUE ELSE ALWAYS_SET_FOCUS
               \/ /\ consecutive_focus_needed < MaxCounter
                  /\ trace' = Append(trace, "light:exception")
                  /\ light_hist' = Remember(light_hist, "exception")
                  /\ need_to_set_focus' = TRUE
                  /\ consecutive_focus_needed' = consecutive_focus_needed + 1
                  /\ UNCHANGED <<vpn_state, need_to_click_connect, ALWAYS_SET_FOCUS>>
            /\ pc' = IF need_to_set_focus' THEN "mon_focus" ELSE "mon_sleep"
            /\ UNCHANGED <<app, main_window, attempt, connection_status, connect_button,
                           ret, exit_code, evidence, result>>

\* Lines 1294-1324: the probe without focus, with its own exception handler.
MonitorLightProbe ==
    /\ pc = "mon_light"
    /\ \/ \E vs \in ProbeVerdicts :
            /\ CounterAfterLight(consecutive_focus_needed, vs) <= MaxCounter
            /\ vpn_state' = vs
            /\ trace' = Append(trace, "light:" \o vs.status)
            /\ light_hist' = Remember(light_hist, vs.status)
            /\ consecutive_focus_needed' =
                  CounterAfterLight(consecutive_focus_needed, vs)
            /\ need_to_click_connect' =
                  IF vs.identified /\ vs.status = "disconnected"
                  THEN TRUE ELSE need_to_click_connect
            /\ need_to_set_focus' =
                  IF vs.identified /\ vs.status # "disconnected"
                  THEN need_to_set_focus ELSE TRUE
            /\ ALWAYS_SET_FOCUS' =
                  IF ~vs.identified
                     /\ FlipCondition(consecutive_focus_needed', ALWAYS_SET_FOCUS)
                  THEN TRUE ELSE ALWAYS_SET_FOCUS
       \/ /\ consecutive_focus_needed < MaxCounter
          /\ trace' = Append(trace, "light:exception")
          /\ light_hist' = Remember(light_hist, "exception")
          /\ need_to_set_focus' = TRUE
          /\ consecutive_focus_needed' = consecutive_focus_needed + 1
          /\ UNCHANGED <<vpn_state, need_to_click_connect, ALWAYS_SET_FOCUS>>
    /\ pc' = IF need_to_set_focus' THEN "mon_focus" ELSE "mon_sleep"
    /\ UNCHANGED <<app, main_window, attempt, connection_status, connect_button,
                   ret, exit_code, evidence, result>>

\* Lines 1327-1333: set_focus and wait('visible').
MonitorSetFocus ==
    /\ pc = "mon_focus"
    /\ \/ /\ pc' = "mon_escalated"
          /\ trace' = Append(trace, "set_focus")
       \/ /\ pc' = "mon_except"
          /\ trace' = Append(trace, "set_focus_raises")
    /\ UNCHANGED <<app, main_window, attempt, connection_status, connect_button,
                   vpn_state, ret, exit_code, ALWAYS_SET_FOCUS,
                   consecutive_focus_needed, need_to_set_focus,
                   need_to_click_connect, light_hist, evidence, result>>

\* Mutant of MonitorEscalatedProbe: a connected verdict of the probe with
\* focus resets the counter, as one of the light probe does.
MonitorEscalatedProbe_resets_counter ==
    /\ pc = "mon_escalated"
    /\ \/ \E vs \in ProbeVerdicts :
            /\ vpn_state' = vs
            /\ trace' = Append(trace, "escalated:" \o vs.status)
            /\ pc' = EscalatedNextPc(vs)
            /\ consecutive_focus_needed' =
                  IF vs.identified /\ vs.status = "connected"
                  THEN 0 ELSE consecutive_focus_needed
       \/ /\ pc' = "mon_except"
          /\ trace' = Append(trace, "escalated:exception")
          /\ UNCHANGED <<vpn_state, consecutive_focus_needed>>
    /\ UNCHANGED <<app, main_window, attempt, connection_status, connect_button,
                   ret, exit_code, ALWAYS_SET_FOCUS,
                   need_to_set_focus, need_to_click_connect, light_hist,
                   evidence, result>>

\* Lines 1336-1353: the probe with focus and the decision taken on it.
MonitorEscalatedProbe ==
    /\ pc = "mon_escalated"
    /\ \/ \E vs \in ProbeVerdicts :
            /\ vpn_state' = vs
            /\ trace' = Append(trace, "escalated:" \o vs.status)
            /\ pc' = EscalatedNextPc(vs)
       \/ /\ pc' = "mon_except"
          /\ trace' = Append(trace, "escalated:exception")
          /\ UNCHANGED vpn_state
    /\ UNCHANGED <<app, main_window, attempt, connection_status, connect_button,
                   ret, exit_code, ALWAYS_SET_FOCUS, consecutive_focus_needed,
                   need_to_set_focus, need_to_click_connect, light_hist,
                   evidence, result>>

\* Mutant of MonitorClick: a click that returned is taken to have connected.
MonitorClick_assumes_connected ==
    /\ pc = "mon_click"
    /\ \/ /\ trace' = Append(trace, "click")
          /\ vpn_state' = Verdict(TRUE, "connected", "Reconnect attempt initiated")
          /\ pc' = "mon_sleep"
       \/ /\ trace' = trace \o <<"click", "click_raised">>
          /\ pc' = "mon_except"
          /\ UNCHANGED vpn_state
       \/ /\ trace' = Append(trace, "button_not_found")
          /\ pc' = "mon_sleep"
          /\ UNCHANGED vpn_state
    /\ UNCHANGED <<app, main_window, attempt, connection_status, connect_button,
                   ret, exit_code, ALWAYS_SET_FOCUS,
                   consecutive_focus_needed, need_to_set_focus,
                   need_to_click_connect, light_hist, evidence, result>>

\* Mutant of MonitorClick: after a click the state is probed again in the
\* same cycle, as the attempt loop of connect_to_vpn does.
MonitorClick_retries ==
    /\ pc = "mon_click"
    /\ \/ /\ trace' = Append(trace, "click")
          /\ pc' = "mon_escalated"
       \/ /\ trace' = trace \o <<"click", "click_raised">>
          /\ pc' = "mon_except"
       \/ /\ trace' = Append(trace, "button_not_found")
          /\ pc' = "mon_sleep"
    /\ UNCHANGED <<app, main_window, attempt, connection_status, connect_button,
                   vpn_state, ret, exit_code, ALWAYS_SET_FOCUS,
                   consecutive_focus_needed, need_to_set_focus,
                   need_to_click_connect, light_hist, evidence, result>>

\* Lines 1345-1351: find the Connect button and click it.
MonitorClick ==
    /\ pc = "mon_click"
    /\ \/ /\ trace' = Append(trace, "click")
          /\ pc' = "mon_sleep"
       \/ /\ trace' = trace \o <<"click", "click_raised">>
          /\ pc' = "mon_except"
       \/ /\ trace' = Append(trace, "button_not_found")
          /\ pc' = "mon_sleep"
    /\ UNCHANGED <<app, main_window, attempt, connection_status, connect_button,
                   vpn_state, ret, exit_code, ALWAYS_SET_FOCUS,
                   consecutive_focus_needed, need_to_set_focus,
                   need_to_click_connect, light_hist, evidence, result>>

\* Mutant of MonitorExcept: a failed re-acquire ends the loop and the process.
MonitorExcept_failed_reacquire_exits ==
    /\ pc = "mon_except"
    /\ \/ /\ app' = "app"
          /\ main_window' = "window"
          /\ trace' = trace \o <<"logged", "reacquire_ok">>
          /\ pc' = "mon_sleep"
          /\ UNCHANGED exit_code
       \/ /\ trace' = trace \o <<"logged", "reacquire_failed">>
          /\ pc' = "exited"
          /\ exit_code' = 1
          /\ UNCHANGED <<app, main_window>>
    /\ UNCHANGED <<attempt, connection_status, connect_button, vpn_state, ret,
                   ALWAYS_SET_FOCUS, consecutive_focus_needed,
                   need_to_set_focus, need_to_click_connect, light_hist,
                   evidence, result>>

\* Mutant of MonitorExcept: the failure is logged but nothing is re-acquired.
MonitorExcept_no_reacquire ==
    /\ pc = "mon_except"
    /\ trace' = Append(trace, "logged")
    /\ pc' = "mon_sleep"
    /\ UNCHANGED <<app, main_window, attempt, connection_status, connect_button,
                   vpn_state, ret, exit_code, ALWAYS_SET_FOCUS,
                   consecutive_focus_needed, need_to_set_focus,
                   need_to_click_connect, light_hist, evidence, result>>

\* Mutant of MonitorExcept: the handler does not wait before the next cycle.
MonitorExcept_no_wait ==
    /\ pc = "mon_except"
    /\ \/ /\ app' = "app"
          /\ main_window' = "window"
          /\ trace' = trace \o <<"logged", "reacquire_ok">>
       \/ /\ trace' = trace \o <<"logged", "reacquire_failed">>
          /\ UNCHANGED <<app, main_window>>
    /\ pc' = "mon_cycle"
    /\ UNCHANGED <<attempt, connection_status, connect_button, vpn_state, ret,
                   exit_code, ALWAYS_SET_FOCUS, consecutive_focus_needed,
                   need_to_set_focus, need_to_click_connect, light_hist,
                   evidence, result>>

\* Lines 1357-1378: the handler of the loop body: log, one re-acquire.
MonitorExcept ==
    /\ pc = "mon_except"
    /\ \/ /\ app' = "app"
          /\ main_window' = "window"
          /\ trace' = trace \o <<"logged", "reacquire_ok">>
       \/ /\ trace' = trace \o <<"logged", "reacquire_failed">>
          /\ UNCHANGED <<app, main_window>>
    /\ pc' = "mon_sleep"
    /\ UNCHANGED <<attempt, connection_status, connect_button, vpn_state, ret,
                   exit_code, ALWAYS_SET_FOCUS, consecutive_focus_needed,
                   need_to_set_focus, need_to_click_connect, light_hist,
                   evidence, result>>

\* Lines 1355 and 1380: time.sleep(check_interval), then the next iteration.
\* While the loop waits the application the handle is bound to may go (it
\* is closed or restarted): the handle is then stale until line 1366 binds
\* a new one.
MonitorSleep ==
    /\ pc = "mon_sleep"
    /\ pc' = "mon_cycle"
    /\ trace' = Append(trace, "sleep")
    /\ app' \in {app, "stale"}
    /\ UNCHANGED <<main_window, attempt, connection_status, connect_button,
                   vpn_state, ret, exit_code, ALWAYS_SET_FOCUS,
                   consecutive_focus_needed, need_to_set_focus,
                   need_to_click_connect, light_hist, evidence, result>>

Monitor ==
    \/ MonitorCycleStart
    \/ MonitorLightProbe
    \/ MonitorSetFocus
    \/ MonitorEscalatedProbe
    \/ MonitorClick
    \/ MonitorExcept
    \/ MonitorSleep

-----------------------------------------------------------------------------
(* connect_to_vpn *)

ctvFrame == <<ALWAYS_SET_FOCUS, consecutive_focus_needed, need_to_set_focus,
              need_to_click_connect, light_hist, exit_code, evidence, result>>

\* Lines 24-28: Application(backend="uia").connect(...).
ConnectApplication ==
    /\ pc = "ctv_app"
    /\ \/ /\ app' = "app"
          /\ main_window' = "None"
          /\ attempt' = 0
          /\ pc' = "ctv_window"
          /\ trace' = Append(trace, "app_connected")
       \/ /\ pc' = "ctv_except"
          /\ trace' = Append(trace, "app_connect_raises")
          /\ UNCHANGED <<app, main_window, attempt>>
    /\ UNCHANGED <<connection_status, connect_button, vpn_state, ret>>
    /\ UNCHANGED ctvFrame

\* Mutant of WindowInit: an attempt that could verify nothing is retried like
\* one that raised.
WindowInit_retries_unverified ==
    /\ pc = "ctv_window"
    /\ \E outcome \in {"raises_early", "raises_late", "verified_state",
                       "verified_disconnect_button", "verified_connect_button",
                       "unverified"} :
        /\ trace' = Append(trace, "window_init:" \o outcome)
        /\ main_window' = IF outcome = "raises_early" THEN main_window ELSE "window"
        /\ IF outcome \in {"raises_early", "raises_late", "unverified"}
           THEN IF attempt = 2
                THEN /\ pc' = "ctv_except"
                     /\ UNCHANGED attempt
                ELSE /\ pc' = "ctv_window"
                     /\ attempt' = attempt + 1
           ELSE /\ pc' = "ctv_method1"
                /\ UNCHANGED attempt
    /\ connection_status' = "None"
    /\ UNCHANGED <<app, connect_button, vpn_state, ret>>
    /\ UNCHANGED ctvFrame

\* Lines 33-95: one iteration of the window-initialisation loop.
\* raises_early: top_window/is_minimized/restore raised, main_window not yet
\* assigned in this iteration; raises_late: set_focus or wait raised after the
\* assignment of line 45.
WindowInit ==
    /\ pc = "ctv_window"
    /\ \E outcome \in {"raises_early", "raises_late", "verified_state",
                       "verified_disconnect_button", "verified_connect_button",
                       "unverified"} :
        /\ trace' = Append(trace, "window_init:" \o outcome)
        /\ main_window' = IF outcome = "raises_early" THEN main_window ELSE "window"
        /\ IF outcome \in {"raises_early", "raises_late"}
           THEN IF attempt = 2
                THEN /\ pc' = "ctv_except"
                     /\ UNCHANGED attempt
                ELSE /\ pc' = "ctv_window"
                     /\ attempt' = attempt + 1
           ELSE /\ pc' = "ctv_method1"
                /\ UNCHANGED attempt
    /\ connection_status' = "None"
    /\ UNCHANGED <<app, connect_button, vpn_state, ret>>
    /\ UNCHANGED ctvFrame

\* Lines 118-128: method 1, state identification.
InitialCheckState ==
    /\ pc = "ctv_method1"
    /\ \/ \E vs \in ProbeVerdicts :
            /\ vpn_state' = vs
            /\ trace' = Append(trace, "method1:" \o vs.status)
            /\ connection_status' = IF vs.identified THEN vs.status ELSE connection_status
            /\ IF vs.identified /\ vs.status = "connected"
               THEN /\ ret' = <<app, main_window>>
                    /\ pc' = "main_check"
               ELSE /\ pc' = "ctv_method2"
                    /\ UNCHANGED ret
       \/ /\ trace' = Append(trace, "method1:exception")
          /\ pc' = "ctv_method2"
          /\ UNCHANGED <<vpn_state, connection_status, ret>>
    /\ UNCHANGED <<app, main_window, attempt, connect_button>>
    /\ UNCHANGED ctvFrame

\* Lines 131-140: method 2, the Disconnect button and its enabled state.
InitialCheckButton ==
    /\ pc = "ctv_method2"
    /\ \E found \in FinderOutcome :
        /\ trace' = Append(trace, "method2:" \o found)
        /\ IF found = "enabled"
           THEN /\ connection_status' = "connected"
                /\ ret' = <<app, main_window>>
                /\ pc' = "main_check"
           ELSE /\ pc' = "ctv_method3"
                /\ UNCHANGED <<connection_status, ret>>
    /\ UNCHANGED <<app, main_window, attempt, connect_button, vpn_state>>
    /\ UNCHANGED ctvFrame

\* Line 145: the window-text test of method 3.
TextSaysConnected(window_text) ==
    \/ Contains(window_text, "VPN Connected")
    \/ Contains(window_text, "Duration") /\ Contains(window_text, "Bytes")

\* Mutant of InitialCheckText: with no status determined the function gives
\* up and returns the pair without trying to connect.
InitialCheckText_acts_only_on_disconnected ==
    /\ pc = "ctv_method3"
    /\ \/ \E window_text \in {"", "VPN Connected", "Duration", "Not Connected"} :
            IF TextSaysConnected(window_text)
            THEN /\ connection_status' = "connected"
                 /\ ret' = <<app, main_window>>
                 /\ pc' = "main_check"
                 /\ trace' = Append(trace, "method3:connected")
            ELSE /\ trace' = Append(trace, "method3:no_match")
                 /\ IF connection_status = "disconnected"
                    THEN pc' = "ctv_find" /\ UNCHANGED ret
                    ELSE pc' = "main_check" /\ ret' = <<app, main_window>>
                 /\ UNCHANGED connection_status
       \/ /\ pc' = "ctv_find"
          /\ trace' = Append(trace, "method3:exception")
          /\ UNCHANGED <<connection_status, ret>>
    /\ UNCHANGED <<app, main_window, attempt, connect_button, vpn_state>>
    /\ UNCHANGED ctvFrame

\* Lines 143-161: method 3, window text; then the status is logged.
InitialCheckText ==
    /\ pc = "ctv_method3"
    /\ \/ \E window_text \in {"", "VPN Connected", "Duration", "Not Connected"} :
            IF TextSaysConnected(window_text)
            THEN /\ connection_status' = "connected"
                 /\ ret' = <<app, main_window>>
                 /\ pc' = "main_check"
                 /\ trace' = Append(trace, "method3:connected")
            ELSE /\ pc' = "ctv_find"
                 /\ trace' = Append(trace, "method3:no_match")
                 /\ UNCHANGED <<connection_status, ret>>
       \/ /\ pc' = "ctv_find"
          /\ trace' = Append(trace, "method3:exception")
          /\ UNCHANGED <<connection_status, ret>>
    /\ UNCHANGED <<app, main_window, attempt, connect_button, vpn_state>>
    /\ UNCHANGED ctvFrame

\* Lines 164-172: look for the Connect button, once more after set_focus.
FindConnectButton ==
    /\ pc = "ctv_find"
    /\ \E outcome \in {"found", "found_with_focus", "not_found", "set_focus_raises"} :
        /\ trace' = <<"find_connect:" \o outcome>>
        /\ connect_button' = (outcome \in {"found", "found_with_focus"})
        /\ attempt' = 0
        /\ pc' = CASE outcome = "set_focus_raises" -> "ctv_except"
                   [] outcome = "not_found" -> "ctv_final_check"
                   [] OTHER -> "ctv_attempt_probe"
    /\ UNCHANGED <<app, main_window, connection_status, vpn_state, ret>>
    /\ UNCHANGED ctvFrame

\* Lines 175-212: final state check with focus, then the text search over
\* the descendants.
FinalCheck ==
    /\ pc = "ctv_final_check"
    /\ \/ \E vs \in ProbeVerdicts, by_text \in BOOLEAN :
            /\ vpn_state' = vs
            /\ IF vs.identified /\ vs.status = "connected"
               THEN /\ ret' = <<app, main_window>>
                    /\ pc' = "main_check"
                    /\ trace' = Append(trace, "final_check:connected")
                    /\ UNCHANGED connect_button
               ELSE /\ connect_button' = by_text
                    /\ pc' = IF by_text THEN "ctv_attempt_probe" ELSE "ctv_last_resort"
                    /\ trace' = Append(trace, "final_check:" \o vs.status)
                    /\ UNCHANGED ret
       \/ /\ pc' = "ctv_except"
          /\ trace' = Append(trace, "final_check:exception")
          /\ UNCHANGED <<vpn_state, connect_button, ret>>
    /\ UNCHANGED <<app, main_window, attempt, connection_status>>
    /\ UNCHANGED ctvFrame

\* Lines 215-222: no Connect button at all.
LastResort ==
    /\ pc = "ctv_last_resort"
    /\ \E disconnect_button \in BOOLEAN :
        IF disconnect_button
        THEN /\ ret' = <<app, main_window>>
             /\ pc' = "main_check"
             /\ trace' = Append(trace, "last_resort:disconnect_found")
        ELSE /\ pc' = "ctv_except"
             /\ trace' = Append(trace, "last_resort:raise")
             /\ UNCHANGED ret
    /\ UNCHANGED <<app, main_window, attempt, connection_status, connect_button,
                   vpn_state>>
    /\ UNCHANGED ctvFrame

\* Mutant of AttemptProbe: a connected verdict does not end the function.
AttemptProbe_no_early_return ==
    /\ pc = "ctv_attempt_probe"
    /\ \/ \E vs \in ProbeVerdicts :
            /\ vpn_state' = vs
            /\ trace' = trace \o <<"attempt", "probe:" \o vs.status>>
            /\ pc' = "ctv_attempt_refresh"
            /\ UNCHANGED ret
       \/ /\ trace' = trace \o <<"attempt", "probe:exception">>
          /\ pc' = "ctv_attempt_except"
          /\ UNCHANGED <<vpn_state, ret>>
    /\ UNCHANGED <<app, main_window, attempt, connection_status, connect_button>>
    /\ UNCHANGED ctvFrame

\* Lines 225-231: start of a connect attempt: already connected?
AttemptProbe ==
    /\ pc = "ctv_attempt_probe"
    /\ \/ \E vs \in ProbeVerdicts :
            /\ vpn_state' = vs
            /\ trace' = trace \o <<"attempt", "probe:" \o vs.status>>
            /\ IF vs.identified /\ vs.status = "connected"
               THEN /\ ret' = <<app, main_window>>
                    /\ pc' = "main_check"
               ELSE /\ pc' = "ctv_attempt_refresh"
                    /\ UNCHANGED ret
       \/ /\ trace' = trace \o <<"attempt", "probe:exception">>
          /\ pc' = "ctv_attempt_except"
          /\ UNCHANGED <<vpn_state, ret>>
    /\ UNCHANGED <<app, main_window, attempt, connection_status, connect_button>>
    /\ UNCHANGED ctvFrame

\* Lines 234-240: restore, set_focus, wait('ready'); the button is looked up
\* again on every attempt after the first.
AttemptRefresh ==
    /\ pc = "ctv_attempt_refresh"
    /\ \/ /\ pc' = "ctv_attempt_except"
          /\ trace' = Append(trace, "refresh_raises")
          /\ UNCHANGED connect_button
       \/ /\ pc' = "ctv_attempt_click"
          /\ trace' = Append(trace, "refresh")
          /\ IF ~connect_button \/ attempt > 0
             THEN connect_button' \in BOOLEAN
             ELSE UNCHANGED connect_button
    /\ UNCHANGED <<app, main_window, attempt, connection_status, vpn_state, ret>>
    /\ UNCHANGED ctvFrame

\* Mutant of NextAttemptPc: the loop has no last attempt.
NextAttemptPc_unbounded(a) == "ctv_attempt_probe"

\* The for-loop header of line 225 after an iteration that neither returned,
\* broke out nor raised: next attempt, or fall out of the loop.
NextAttemptPc(a) == IF a = 2 THEN "ctv_initiated" ELSE "ctv_attempt_probe"

NextAttempt(a) == IF a = 2 THEN a ELSE a + 1

\* Mutant of AfterReprobePc: a connected re-probe does not leave the loop.
AfterReprobePc_no_break(vs, a) == NextAttemptPc(a)

\* Lines 248-253: `break` when the re-probe after the click says connected.
AfterReprobePc(vs, a) ==
    IF vs.identified /\ vs.status = "connected"
    THEN "ctv_initiated" ELSE NextAttemptPc(a)

\* Lines 242-258: click, wait, re-probe; or the button is missing.
AttemptClick ==
    /\ pc = "ctv_attempt_click"
    /\ IF connect_button
       THEN \/ /\ trace' = trace \o <<"click", "click_raised">>
               /\ pc' = "ctv_attempt_except"
               /\ UNCHANGED <<vpn_state, attempt>>
            \/ /\ trace' = trace \o <<"click", "sleep3", "reprobe:exception">>
               /\ pc' = "ctv_attempt_except"
               /\ UNCHANGED <<vpn_state, attempt>>
            \/ \E vs \in ProbeVerdicts :
                 /\ vpn_state' = vs
                 /\ trace' = trace \o <<"click", "sleep3", "reprobe:" \o vs.status>>
                 /\ pc' = AfterReprobePc(vs, attempt)
                 /\ attempt' = IF pc' = "ctv_attempt_probe"
                               THEN NextAttempt(attempt) ELSE attempt
       ELSE /\ trace' = Append(trace, "button_not_found")
            /\ IF attempt = 2
               THEN /\ pc' = "ctv_attempt_except"
                    /\ UNCHANGED attempt
               ELSE /\ pc' = NextAttemptPc(attempt)
                    /\ attempt' = NextAttempt(attempt)
            /\ UNCHANGED vpn_state
    /\ UNCHANGED <<app, main_window, connection_status, connect_button, ret>>
    /\ UNCHANGED ctvFrame

\* Lines 261-265: the handler of one attempt.
AttemptExcept ==
    /\ pc = "ctv_attempt_except"
    /\ IF attempt = 2
       THEN /\ pc' = "ctv_except"
            /\ trace' = Append(trace, "attempt_failed_logged")
            /\ UNCHANGED attempt
       ELSE /\ pc' = "ctv_attempt_probe"
            /\ trace' = trace \o <<"attempt_failed_logged", "sleep2">>
            /\ attempt' = attempt + 1
    /\ UNCHANGED <<app, main_window, connection_status, connect_button,
                   vpn_state, ret>>
    /\ UNCHANGED ctvFrame

\* Lines 267-268: after the loop.
ConnectionInitiated ==
    /\ pc = "ctv_initiated"
    /\ trace' = Append(trace, "initiated_logged")
    /\ ret' = <<app, main_window>>
    /\ pc' = "main_check"
    /\ UNCHANGED <<app, main_window, attempt, connection_status, connect_button,
                   vpn_state>>
    /\ UNCHANGED ctvFrame

\* Mutant of ConnectExcept: the handler keeps the application it had.
ConnectExcept_keeps_app ==
    /\ pc = "ctv_except"
    /\ trace' = Append(trace, "critical_error_logged")
    /\ ret' = <<app, "None">>
    /\ pc' = "main_check"
    /\ UNCHANGED <<app, main_window, attempt, connection_status, connect_button,
                   vpn_state>>
    /\ UNCHANGED ctvFrame

\* Lines 270-284: the handler of the whole function.
ConnectExcept ==
    /\ pc = "ctv_except"
    /\ trace' = Append(trace, "critical_error_logged")
    /\ ret' = <<"None", "None">>
    /\ pc' = "main_check"
    /\ UNCHANGED <<app, main_window, attempt, connection_status, connect_button,
                   vpn_state>>
    /\ UNCHANGED ctvFrame

connect_to_vpn ==
    \/ ConnectApplication
    \/ WindowInit
    \/ InitialCheckState
    \/ InitialCheckButton
    \/ InitialCheckText
    \/ FindConnectButton
    \/ FinalCheck
    \/ LastResort
    \/ AttemptProbe
    \/ AttemptRefresh
    \/ AttemptClick
    \/ AttemptExcept
    \/ ConnectionInitiated
    \/ ConnectExcept

-----------------------------------------------------------------------------
(* Main execution *)

\* Lines 1421-1428: unpack the returned pair; monitor when both are set.
\* The locals of connect_to_vpn are gone once it has returned.  Falling off
\* the end of the script ends the process with status 0.
MainCheck ==
    /\ pc = "main_check"
    /\ app' = ret[1]
    /\ main_window' = ret[2]
    /\ attempt' = 0
    /\ connection_status' = "None"
    /\ connect_button' = FALSE
    /\ vpn_state' = InitialResult
    /\ IF ret[1] # "None" /\ ret[2] # "None"
       THEN /\ pc' = "mon_cycle"
            /\ consecutive_focus_needed' = 0
            /\ trace' = <<>>
            /\ UNCHANGED exit_code
       ELSE /\ pc' = "exited"
            /\ exit_code' = 0
            /\ trace' = Append(trace, "cannot_start_monitoring_logged")
            /\ UNCHANGED consecutive_focus_needed
    /\ UNCHANGED <<ret, ALWAYS_SET_FOCUS, need_to_set_focus,
                   need_to_click_connect, light_hist, evidence, result>>

-----------------------------------------------------------------------------
(* The program *)

NoEvidence ==
    [disc_direct |-> "none", conn_direct |-> "none", h_buttons |-> <<>>,
     h_texts |-> <<>>, wt_raises |-> FALSE, window_text |-> ""]

ProgramInit ==
    /\ pc = "ctv_app"
    /\ app = "unbound"
    /\ main_window = "unbound"
    /\ attempt = 0
    /\ connection_status = "None"
    /\ connect_button = FALSE
    /\ vpn_state = InitialResult
    /\ ret = <<"unbound", "unbound">>
    /\ exit_code = "running"
    /\ ALWAYS_SET_FOCUS = FALSE
    /\ consecutive_focus_needed = 0
    /\ need_to_set_focus = FALSE
    /\ need_to_click_connect = FALSE
    /\ trace = <<>>
    /\ light_hist = <<>>

Init ==
    /\ ProgramInit
    /\ evidence = NoEvidence
    /\ result = InitialResult

Next ==
    \/ connect_to_vpn
    \/ MainCheck
    \/ Monitor

Spec == Init /\ [][Next]_vars

\* The program is sequential and takes its next step whenever there is one:
\* no call of the loop blocks for ever.
SpecLive == Spec /\ WF_vars(Next)

-----------------------------------------------------------------------------
(* The classifier on its own: every evidence of EvidenceSet is classified. *)

ClassifyInit ==
    /\ ProgramInit
    /\ evidence \in EvidenceSet
    /\ result = InitialResult

Classify ==
    /\ pc = "ctv_app"
    /\ result = InitialResult
    /\ result' = identify_vpn_state(evidence)
    /\ pc' = "classified"
    /\ UNCHANGED <<app, main_window, attempt, connection_status, connect_button,
                   vpn_state, ret, exit_code, ALWAYS_SET_FOCUS,
                   consecutive_focus_needed, need_to_set_focus,
                   need_to_click_connect, trace, light_hist, evidence>>

ClassifyNext == Classify

SpecClassify == ClassifyInit /\ [][ClassifyNext]_vars

-----------------------------------------------------------------------------
(* Claims about identify_vpn_state, checked under SpecClassify *)

Classified == pc = "classified"

Flags == ButtonFlags(evidence)

DisconnectActive == Flags.disconnect_button_found /\ Flags.disconnect_button_enabled

ConnectActive == Flags.connect_button_found /\ Flags.connect_button_enabled

\* C2: whenever the disconnect control is found and enabled, the result is
\* identified with status connected, whatever the connect control and the
\* scraped text are.
C2_DisconnectActiveIsConnected ==
    (Classified /\ DisconnectActive) =>
        (result.identified /\ result.status = "connected")

\* C2 witness: the rule decides against an enabled Connect control and a
\* text that says "Not Connected".
C2_Witness ==
    /\ Classified
    /\ DisconnectActive
    /\ ConnectActive
    /\ Contains(FullText(evidence), "Not Connected")
    /\ result.status = "connected"

\* C3: when the disconnect control is absent or not enabled and the connect
\* control is found and enabled, the status is disconnected for every text.
C3_ConnectActiveIsDisconnected ==
    (Classified /\ ~DisconnectActive /\ ConnectActive) =>
        (result.identified /\ result.status = "disconnected")

\* C3 witness: the rule decides against a text with two connected
\* indicators ("VPN Connected" and "Duration").
C3_Witness ==
    /\ Classified
    /\ ~DisconnectActive
    /\ ConnectActive
    /\ Contains(FullText(evidence), "VPN Connected")
    /\ Contains(FullText(evidence), "Duration")
    /\ result.status = "disconnected"

-----------------------------------------------------------------------------
(* Claims about monitor_vpn_connection, checked under Spec *)

MonitorPcs ==
    {"mon_cycle", "mon_light", "mon_focus", "mon_escalated", "mon_click",
     "mon_except", "mon_sleep"}

InMonitor == pc \in MonitorPcs

InTrace(event) == \E i \in 1..Len(trace) : trace[i] = event

Count(seq, event) == Cardinality({i \in 1..Len(seq) : seq[i] = event})

\* Failures that reach the handler of the loop body (line 1357).
LoopFailures ==
    {"lookup_raises", "restore_raises", "set_focus_raises",
     "escalated:exception", "click_raised"}

LoopFailureInTrace == \E i \in 1..Len(trace) : trace[i] \in LoopFailures

Reacquires == Count(trace, "reacquire_ok") + Count(trace, "reacquire_failed")

\* The cycle has done its work and is about to wait check_interval.
CycleAtSleep == pc = "mon_sleep"

\* C1 as stated: every failure of a cycle, that of the light probe included,
\* is followed by one re-acquire before the cycle waits.
C1_Original ==
    (CycleAtSleep /\ (LoopFailureInTrace \/ InTrace("light:exception")))
        => Reacquires = 1

\* C1 (amended): the loop is never left and the process never exits once
\* monitoring runs; a failure raised by window lookup, restore, set_focus or
\* wait, escalated probe or click is logged and followed by exactly one
\* re-acquire, whether that succeeds or not; a failure of the light probe is
\* handled by the probe's own handler and leads to no re-acquire; in every
\* case the cycle then waits and the next step is the start of a new cycle.
C1_FailuresNeverEndLoop ==
    /\ [](InMonitor => exit_code = "running")
    /\ [][InMonitor => InMonitor']_vars
    /\ [](CycleAtSleep =>
            IF LoopFailureInTrace
            THEN Count(trace, "logged") = 1 /\ Reacquires = 1
            ELSE Reacquires = 0)
    /\ [][pc = "mon_except" => pc' = "mon_sleep"]_vars
    /\ [][pc = "mon_sleep" =>
            (pc' = "mon_cycle" /\ trace' = Append(trace, "sleep"))]_vars

\* C1 witness: a cycle whose click raised and whose re-acquire failed has
\* waited and stands at the start of the next cycle.
C1_Witness ==
    /\ pc = "mon_cycle"
    /\ InTrace("click_raised")
    /\ InTrace("reacquire_failed")
    /\ trace[Len(trace)] = "sleep"

AllUnknown == [i \in 1..max_consecutive_focus |-> "unknown"]

\* C4: after three consecutive light probes that returned unknown the
\* global is on, and it is switched on only by a light probe that returned
\* unknown and is the last of at least three consecutive unresolved light
\* probes.
C4_FlipAtThirdUnknown ==
    /\ [](light_hist = AllUnknown => ALWAYS_SET_FOCUS)
    /\ [][(~ALWAYS_SET_FOCUS /\ ALWAYS_SET_FOCUS') =>
            /\ Len(light_hist') = max_consecutive_focus
            /\ \A i \in 1..Len(light_hist') :
                   light_hist'[i] \in {"unknown", "exception"}
            /\ light_hist'[Len(light_hist')] = "unknown"
            /\ consecutive_focus_needed' >= max_consecutive_focus]_vars

\* C4 witness: the third unknown light probe in a row has just switched the
\* global on.
C4_Witness ==
    /\ pc = "mon_focus"
    /\ light_hist = AllUnknown
    /\ consecutive_focus_needed = max_consecutive_focus
    /\ ALWAYS_SET_FOCUS
    /\ trace = <<"lookup", "light:unknown">>

\* C5: once on, the global stays on; no light probe is started while it is
\* on, and a cycle that starts with it on goes to set_focus (or fails),
\* whatever the counter is.
C5_FlipIsOneWay ==
    /\ [][ALWAYS_SET_FOCUS => ALWAYS_SET_FOCUS']_vars
    /\ [](pc = "mon_light" => ~ALWAYS_SET_FOCUS)
    /\ [][(pc = "mon_cycle" /\ ALWAYS_SET_FOCUS) =>
             (pc' \in {"mon_focus", "mon_except"}
              /\ \A i \in 1..Len(trace') :
                    trace'[i] \notin {"light:connected", "light:disconnected",
                                      "light:unknown", "light:exception"})]_vars

\* C5 witness: with the global on and the counter back at 0 after a restore,
\* a cycle on a window that is not minimized is about to set focus without a
\* light probe.
C5_Witness ==
    /\ pc = "mon_focus"
    /\ ALWAYS_SET_FOCUS
    /\ consecutive_focus_needed = 0
    /\ trace = <<"lookup">>
    /\ Len(light_hist) >= 2
    /\ light_hist[Len(light_hist) - 1] = "restored"

LastEvent(seq) == IF seq = <<>> THEN "" ELSE seq[Len(seq)]

\* C6: a light probe that returns connected or disconnected, and a cycle
\* that restores the minimized window, leave the counter at 0; the next
\* unresolved light probe then counts 1.
C6_CounterResets ==
    /\ [][(pc = "mon_light"
           /\ LastEvent(trace') \in {"light:connected", "light:disconnected"})
            => consecutive_focus_needed' = 0]_vars
    /\ [][(pc = "mon_cycle" /\ LastEvent(trace') = "restore")
            => consecutive_focus_needed' = 0]_vars
    /\ [](InMonitor /\ Len(light_hist) >= 2
          /\ light_hist[Len(light_hist) - 1]
                \in {"connected", "disconnected", "restored"}
          /\ light_hist[Len(light_hist)] \in {"unknown", "exception"}
            => consecutive_focus_needed = 1)

\* C6 witness: a disconnected light verdict after two unknown ones has put
\* the counter back to 0.
C6_Witness ==
    /\ pc = "mon_focus"
    /\ light_hist = <<"unknown", "unknown", "disconnected">>
    /\ consecutive_focus_needed = 0
    /\ ~ALWAYS_SET_FOCUS

\* C7: in a monitoring cycle a click comes only right after a focused probe
\* that returned disconnected; after a focused probe that returned unknown
\* there is no click and the cycle goes to its wait.
C7_ClickOnlyAfterEscalatedDisconnected ==
    InMonitor =>
        /\ \A i \in 1..Len(trace) :
              trace[i] = "click" =>
                  (i > 1 /\ trace[i - 1] = "escalated:disconnected")
        /\ InTrace("escalated:unknown") =>
              /\ ~InTrace("click")
              /\ \/ pc = "mon_sleep"
                 \/ pc = "mon_cycle" /\ LastEvent(trace) = "sleep"

\* C7 witness: the click has been made after the focused probe.
C7_Witness ==
    /\ pc = "mon_sleep"
    /\ LastEvent(trace) = "click"
    /\ InTrace("escalated:disconnected")

\* C8 as stated: a cycle whose light probe returned disconnected and that
\* met no failure goes to the connect action (the click, or the search for
\* the button) without needing a second verdict.
C8_LightDisconnectedActs ==
    (CycleAtSleep /\ InTrace("light:disconnected") /\ ~LoopFailureInTrace)
        => (InTrace("click") \/ InTrace("button_not_found"))

-----------------------------------------------------------------------------
(* Claims about the connect attempts of connect_to_vpn, checked under Spec *)

ProbeEvents ==
    {"probe:connected", "probe:disconnected", "probe:unknown",
     "reprobe:connected", "reprobe:disconnected", "reprobe:unknown"}

\* C9: the attempt loop issues at most 3 clicks; a click that returned is
\* followed by the wait and the re-probe; a state probe lies between any two
\* clicks; after a re-probe that returned connected there is no further
\* click and no further attempt, so a connected re-probe in attempt 1 means
\* 1 attempt in all.
C9_BoundedClicksStopOnConnected ==
    ~InMonitor =>
        /\ Count(trace, "click") <= 3
        /\ Count(trace, "attempt") <= 3
        /\ \A i \in 1..Len(trace) :
              trace[i] = "click" =>
                  /\ i < Len(trace)
                  /\ \/ trace[i + 1] = "click_raised"
                     \/ /\ trace[i + 1] = "sleep3"
                        /\ i + 2 <= Len(trace)
                        /\ trace[i + 2] \in {"reprobe:connected",
                                            "reprobe:disconnected",
                                            "reprobe:unknown",
                                            "reprobe:exception"}
        /\ \A i, j \in 1..Len(trace) :
              (i < j /\ trace[i] = "click" /\ trace[j] = "click") =>
                  \E k \in (i + 1)..(j - 1) : trace[k] \in ProbeEvents
        /\ \A i, j \in 1..Len(trace) :
              (i < j /\ trace[i] = "reprobe:connected") =>
                  trace[j] \notin {"click", "attempt"}

\* C9 witness: the first attempt clicked, its re-probe said connected, and
\* the function is about to return after 1 attempt.
C9_Witness ==
    /\ pc = "ctv_initiated"
    /\ Count(trace, "attempt") = 1
    /\ Count(trace, "click") = 1
    /\ LastEvent(trace) = "reprobe:connected"

\* The third attempt has been made and did not end with a connected verdict.
AttemptsExhausted ==
    /\ Count(trace, "attempt") = 3
    /\ ~InTrace("probe:connected")
    /\ ~InTrace("reprobe:connected")
    /\ pc \in {"ctv_initiated", "ctv_except", "main_check", "exited"}

\* C10 as stated: when the three attempts are used up without a connected
\* verdict, no exception leaves the attempt loop, connect_to_vpn returns the
\* pair, and the process does not exit.
C10_ExhaustedAttemptsStillMonitor ==
    AttemptsExhausted =>
        /\ pc \notin {"ctv_except", "exited"}
        /\ pc = "main_check" => ret = <<"app", "window">>

-----------------------------------------------------------------------------
(* Claims about startup and the main block, checked under Spec *)

WindowInitFailures ==
    Count(trace, "window_init:raises_early")
        + Count(trace, "window_init:raises_late")

\* The window handle was not acquired: connecting to the application raised,
\* or window initialisation raised on all 3 attempts.
HandleNotAcquired ==
    \/ InTrace("app_connect_raises")
    \/ WindowInitFailures = 3

\* C11 as stated: when the handle is not acquired the monitoring loop is
\* never entered and the process ends with a non-zero exit status.
C11_NoHandleExitsNonZero ==
    HandleNotAcquired =>
        /\ ~InMonitor
        /\ pc = "exited" => exit_code \notin {0, "running"}

\* C12 as stated: the process ends without monitoring only when the handle
\* was not acquired.
C12_OnlyHandleFailureIsFatal ==
    pc = "exited" => HandleNotAcquired

-----------------------------------------------------------------------------
(* Further claims about monitor_vpn_connection, checked under Spec *)

\* The cycle failed at the window lookup and its handler found the
\* application unreachable.
HandleLostAtSleep ==
    /\ CycleAtSleep
    /\ InTrace("lookup_raises")
    /\ ~InTrace("reacquire_ok")

Unresolved == {"unknown", "exception"}

\* C14 as stated: a light probe that raises counts like one that returns
\* unknown, so after three consecutive unresolved light probes, raised or
\* unknown in any mix, the global is on.
C14_ExceptionCountsAsUnknown ==
    (/\ Len(light_hist) = max_consecutive_focus
     /\ \A i \in 1..Len(light_hist) : light_hist[i] \in Unresolved)
        => ALWAYS_SET_FOCUS

-----------------------------------------------------------------------------
(* Further claims about identify_vpn_state, checked under SpecClassify *)

\* Mutant of strong_indicators: "Bytes Sent" counts as strong too.
strong_indicators_with_bytes_sent ==
    <<"VPN Connected", "Duration", "Bytes Received", "Bytes Sent",
      "IP Address", "Username">>

\* Line 1255: the indicators the text analysis calls strong.
strong_indicators ==
    <<"VPN Connected", "Duration", "Bytes Received", "IP Address", "Username">>

\* Neither rule 1 nor rule 2 applies.
NoActiveControl == ~DisconnectActive /\ ~ConnectActive

\* Indicators are matched on both sides (lines 928-942).
BothSidesMatched ==
    FoundConnected(evidence) # <<>> /\ FoundDisconnected(evidence) # <<>>

StrongMatched ==
    \E i \in 1..Len(strong_indicators) :
        InList(strong_indicators[i], FoundConnected(evidence))

\* C15 as stated: with no active control and indicators on both sides, the
\* status is connected when a strong indicator is matched and unknown
\* otherwise.
C15_StrongIndicatorDecidesMixed ==
    (Classified /\ NoActiveControl /\ BothSidesMatched) =>
        result.status = IF StrongMatched THEN "connected" ELSE "unknown"

\* Both controls are absent (lines 853-870 and 895-901 found neither).
BothControlsAbsent ==
    ~Flags.disconnect_button_found /\ ~Flags.connect_button_found

TextConnected == Matched(connected_indicators, FullText(evidence))

TextDisconnected == Matched(disconnected_indicators, FullText(evidence))

\* C16: with both controls absent, a text that matches at least 2 connected
\* indicators and no disconnected indicator is classified connected.
C16_TwoConnectedIndicators ==
    (/\ Classified
     /\ BothControlsAbsent
     /\ Len(TextConnected) >= 2
     /\ TextDisconnected = <<>>) =>
        result.status = "connected" /\ result.identified

\* C16 witness: exactly 2 connected indicators, one from the hierarchy and
\* one from the window text.
C16_Witness ==
    /\ Classified
    /\ BothControlsAbsent
    /\ evidence.h_texts = <<"IP Address">>
    /\ evidence.window_text = "Username"
    /\ TextConnected = <<"IP Address", "Username">>
    /\ result.status = "connected"

EmptyScrapedText == evidence.h_texts = <<>> /\ evidence.window_text = ""

\* C17: with both controls absent and no scraped text the result is
\* unknown and not identified.
C17_NothingFoundIsUnknown ==
    (Classified /\ BothControlsAbsent /\ EmptyScrapedText) =>
        result.status = "unknown" /\ ~result.identified

\* C17 witness: nothing found and the window text could not even be read.
C17_Witness ==
    /\ Classified
    /\ BothControlsAbsent
    /\ EmptyScrapedText
    /\ evidence.wt_raises
    /\ result = Verdict(FALSE, "unknown", "Content pane found but status unclear")

\* C18: with no active control, at least 1 disconnected indicator and no
\* connected indicator, the result is disconnected.
C18_DisconnectedIndicatorOnly ==
    (/\ Classified
     /\ NoActiveControl
     /\ Len(FoundDisconnected(evidence)) >= 1
     /\ FoundConnected(evidence) = <<>>) =>
        result.status = "disconnected" /\ result.identified

\* C18 witness: the single indicator "Connect", read from the text with no
\* control found.
C18_Witness ==
    /\ Classified
    /\ BothControlsAbsent
    /\ FoundDisconnected(evidence) = <<"Connect">>
    /\ FoundConnected(evidence) = <<>>
    /\ result.status = "disconnected"

\* Both controls are present and enabled.
Contradictory == DisconnectActive /\ ConnectActive

\* A control is present, none is present and enabled, and the text matches
\* no indicator.
Insufficient ==
    /\ Flags.disconnect_button_found \/ Flags.connect_button_found
    /\ NoActiveControl
    /\ TextConnected = <<>>
    /\ TextDisconnected = <<>>

-----------------------------------------------------------------------------
(* Further claims about monitor_vpn_connection, checked under Spec *)

\* The cycle that just ended produced a connected verdict and nothing but
\* the wait of check_interval followed: a remembered connected verdict
\* cannot be younger than this at the start of a cycle.
ConnectedOneTickAgo ==
    /\ pc = "mon_cycle"
    /\ Len(trace) >= 2
    /\ trace[Len(trace)] = "sleep"
    /\ trace[Len(trace) - 1] \in {"light:connected", "escalated:connected"}

ProbeInTrace ==
    \E i \in 1..Len(trace) :
        trace[i] \in {"light:connected", "light:disconnected", "light:unknown",
                      "light:exception", "escalated:connected",
                      "escalated:disconnected", "escalated:unknown",
                      "escalated:exception"}

LightProbesInTrace ==
    Count(trace, "light:connected") + Count(trace, "light:disconnected")
        + Count(trace, "light:unknown") + Count(trace, "light:exception")

EscalatedProbesInTrace ==
    Count(trace, "escalated:connected") + Count(trace, "escalated:disconnected")
        + Count(trace, "escalated:unknown") + Count(trace, "escalated:exception")

\* C22: a monitoring cycle runs at most one light probe, then at most one
\* escalated probe, then at most one click, and nothing of the cycle but the
\* handler and the wait follows the click; the next cycle starts only from
\* the wait that ends the cycle before it.
C22_OneSequentialCycle ==
    /\ [](InMonitor =>
            /\ Count(trace, "click") <= 1
            /\ LightProbesInTrace <= 1
            /\ EscalatedProbesInTrace <= 1
            /\ \A i, j \in 1..Len(trace) :
                  (i < j /\ trace[i] = "click") =>
                      trace[j] \in {"click_raised", "logged", "reacquire_ok",
                                    "reacquire_failed", "sleep"})
    /\ [][(InMonitor /\ pc' = "mon_cycle") => pc \in {"mon_sleep", "mon_cycle"}]_vars

\* C22 witness: the one click of a cycle has been issued after both probes.
C22_Witness ==
    /\ pc = "mon_sleep"
    /\ LightProbesInTrace = 1
    /\ EscalatedProbesInTrace = 1
    /\ LastEvent(trace) = "click"

\* C23: a light probe that returns connected sets the counter to 0 and the
\* cycle goes straight to the wait: no set_focus, no escalated probe and no
\* click belong to that cycle.
C23_LightConnectedEndsCycle ==
    /\ [][(pc = "mon_light" /\ LastEvent(trace') = "light:connected") =>
            (consecutive_focus_needed' = 0 /\ pc' = "mon_sleep")]_vars
    /\ []((InMonitor /\ InTrace("light:connected")) =>
            /\ consecutive_focus_needed = 0
            /\ \/ pc = "mon_sleep" /\ trace = <<"lookup", "light:connected">>
               \/ pc = "mon_cycle"
                  /\ trace = <<"lookup", "light:connected", "sleep">>)

\* C23 witness: the connected light probe came after two unresolved ones, so
\* the counter did fall back to 0.
C23_Witness ==
    /\ pc = "mon_sleep"
    /\ trace = <<"lookup", "light:connected">>
    /\ light_hist = <<"unknown", "exception", "connected">>
    /\ consecutive_focus_needed = 0

\* C24: the escalated probe never changes the counter, whatever it returns;
\* so when the third unknown light probe in a row is followed by an
\* escalated probe that returns connected, the counter is at the threshold
\* and the global setting is on.
C24_EscalatedLeavesCounter ==
    /\ [][pc = "mon_escalated" =>
            consecutive_focus_needed' = consecutive_focus_needed]_vars
    /\ []((/\ InMonitor
           /\ InTrace("light:unknown")
           /\ InTrace("escalated:connected")
           /\ light_hist = AllUnknown) =>
            /\ consecutive_focus_needed >= max_consecutive_focus
            /\ ALWAYS_SET_FOCUS)

\* C24 witness: three cycles in a row with an unknown light probe, the last
\* one followed by a connected escalated probe: the counter is 3.
C24_Witness ==
    /\ pc = "mon_sleep"
    /\ trace = <<"lookup", "light:unknown", "set_focus", "escalated:connected">>
    /\ light_hist = AllUnknown
    /\ consecutive_focus_needed = max_consecutive_focus
    /\ ALWAYS_SET_FOCUS

\* C25: the counter grows only by the step of a light probe that ended
\* unresolved (unknown or exception), and then by exactly 1; the light
\* probe is reached only in a cycle that was not forced to escalate (window
\* not minimized, global setting off), so a forced cycle never increases
\* the counter.
C25_CounterGrowsOnlyOnUnresolvedLight ==
    /\ [][consecutive_focus_needed' > consecutive_focus_needed =>
            /\ pc = "mon_light"
            /\ consecutive_focus_needed' = consecutive_focus_needed + 1
            /\ LastEvent(trace') \in {"light:unknown", "light:exception"}]_vars
    /\ [](pc = "mon_light" => trace = <<"lookup">> /\ ~ALWAYS_SET_FOCUS)

\* C25 witness: an unknown light probe and then one that raised have taken
\* the counter to 2.
C25_Witness ==
    /\ pc = "mon_focus"
    /\ trace = <<"lookup", "light:exception">>
    /\ light_hist = <<"unknown", "exception">>
    /\ consecutive_focus_needed = 2

\* C26: a cycle is entered from the wait only, the wait is taken once after
\* the normal end of a cycle and once after the handler of a failed one, and
\* it is always followed by the next cycle.
C26_OneWaitBetweenCycles ==
    /\ [][(InMonitor /\ pc' = "mon_cycle" /\ pc # "mon_cycle") =>
            (pc = "mon_sleep" /\ trace' = Append(trace, "sleep"))]_vars
    /\ [][pc = "mon_sleep" => pc' = "mon_cycle"]_vars
    /\ []((pc = "mon_cycle" /\ trace # <<>>) =>
            (Count(trace, "sleep") = 1 /\ LastEvent(trace) = "sleep"))
    /\ []((InMonitor /\ pc # "mon_cycle") => Count(trace, "sleep") = 0)

\* C26 witness: a cycle that failed at set_focus went through the handler
\* and has waited once.
C26_Witness ==
    /\ pc = "mon_cycle"
    /\ trace = <<"lookup", "light:unknown", "set_focus_raises", "logged",
                 "reacquire_ok", "sleep">>

\* The handle the loop holds is bound to an application that has gone.
HandleLost == InMonitor /\ app = "stale"

\* The application is, or has just been, out of reach: the handle went
\* stale during the wait of a cycle that had ended with a good one, or a
\* call on a good handle has failed, or a re-acquire has failed.
OutOfReach ==
    \/ /\ pc = "mon_cycle"
       /\ app = "stale"
       /\ InTrace("reacquire_ok") \/ ~LoopFailureInTrace
    \/ pc = "mon_except" /\ app = "app" /\ trace = <<"lookup_raises">>
    \/ \E i \in 1..Len(trace) :
          trace[i] \in {"reacquire_failed", "restore_raises",
                        "set_focus_raises", "light:exception",
                        "escalated:exception", "click_raised"}

StaysReachable == InMonitor /\ ~OutOfReach

\* A cycle on a good handle has got a verdict and is about to wait.
ProbeCompleted ==
    /\ pc = "mon_sleep"
    /\ app = "app"
    /\ \E i \in 1..Len(trace) :
          trace[i] \in {"light:connected", "light:disconnected", "light:unknown",
                        "escalated:connected", "escalated:disconnected",
                        "escalated:unknown"}

\* C27: with the handle lost every cycle fails at the lookup, its handler
\* makes one re-acquire attempt and the loop goes on to the wait, round
\* after round with no limit; and if from some point on the application
\* stays within reach, every loss of the handle is followed by a cycle that
\* holds a good handle again and completes a probe.
C27_ReacquiredOnceReachable ==
    /\ [][(pc = "mon_cycle" /\ app = "stale") =>
            (pc' = "mon_except" /\ trace' = <<"lookup_raises">>)]_vars
    /\ [][pc = "mon_except" => (pc' = "mon_sleep" /\ Reacquires' = 1)]_vars
    /\ (<>[]StaysReachable) => [](HandleLost => <>ProbeCompleted)

\* C27 witness: the handle is lost, a round of re-acquire has failed and
\* after the wait the next round is about to start.
C27_Witness ==
    /\ pc = "mon_cycle"
    /\ HandleLost
    /\ trace = <<"lookup_raises", "logged", "reacquire_failed", "sleep">>

-----------------------------------------------------------------------------
(* Further claims about connect_to_vpn, checked under Spec *)

\* C28 as stated: between any two consecutive attempts of the connect phase
\* lies the backoff wait of 2 seconds.
C28_BackoffBetweenAttempts ==
    ~InMonitor =>
        \A i, j \in 1..Len(trace) :
            (i < j /\ trace[i] = "attempt" /\ trace[j] = "attempt") =>
                \E k \in (i + 1)..(j - 1) : trace[k] = "sleep2"

\* C29: a cycle that finds the window minimized calls restore and runs no
\* light probe, whatever the global setting and the counter are; when
\* restore returns, the cycle goes to set_focus, and when that returns, to
\* the escalated probe; a call that raises takes the cycle to the handler.
C29_MinimizedForcesEscalation ==
    /\ [][(pc = "mon_cycle" /\ InTrace("minimized")') =>
            \/ /\ trace' = <<"lookup", "minimized", "restore">>
               /\ pc' = "mon_focus"
               /\ need_to_set_focus'
            \/ /\ trace' = <<"lookup", "minimized", "restore_raises">>
               /\ pc' = "mon_except"]_vars
    /\ []((InMonitor /\ InTrace("minimized")) => LightProbesInTrace = 0)
    /\ []((/\ InMonitor
           /\ InTrace("restore")
           /\ pc \in {"mon_sleep", "mon_click"}
           /\ ~LoopFailureInTrace) =>
            /\ Len(trace) >= 5
            /\ trace[4] = "set_focus"
            /\ trace[5] \in {"escalated:connected", "escalated:disconnected",
                             "escalated:unknown", "escalated:exception"})
    /\ []((InMonitor /\ InTrace("restore") /\ pc = "mon_except") =>
            LastEvent(trace) \in {"set_focus_raises", "escalated:exception",
                                  "click_raised"})

\* C29 witness: the global setting is off and the counter stood at 2 when
\* the window was found minimized; the cycle restored it and ran the
\* escalated probe.
C29_Witness ==
    /\ pc = "mon_sleep"
    /\ trace = <<"lookup", "minimized", "restore", "set_focus",
                 "escalated:connected">>
    /\ light_hist = <<"unknown", "unknown", "restored">>
    /\ ~ALWAYS_SET_FOCUS
    /\ consecutive_focus_needed = 0

\* C30: when one of the initial checks reports connected the function
\* returns the pair and has not clicked; every click of the attempt loop
\* comes, in its attempt, after a state check that returned disconnected or
\* unknown and the refresh; and no click follows a state check that
\* returned connected.
C30_NoClickWhenConnected ==
    ~InMonitor =>
        /\ connection_status = "connected" =>
              /\ pc = "main_check"
              /\ ret = <<app, main_window>>
              /\ ~InTrace("click")
              /\ LastEvent(trace) \in {"method1:connected", "method2:enabled",
                                      "method3:connected"}
        /\ \A i \in 1..Len(trace) :
              trace[i] = "click" =>
                  /\ i > 3
                  /\ trace[i - 1] = "refresh"
                  /\ trace[i - 2] \in {"probe:disconnected", "probe:unknown"}
                  /\ trace[i - 3] = "attempt"
        /\ \A i, j \in 1..Len(trace) :
              (i < j /\ trace[i] \in {"method1:connected", "final_check:connected",
                                       "probe:connected", "reprobe:connected"}) =>
                  trace[j] # "click"

\* C30 witness: the first attempt probed, got disconnected, and clicked.
C30_Witness ==
    /\ pc = "ctv_attempt_probe"
    /\ attempt = 1
    /\ trace = <<"find_connect:found", "attempt", "probe:disconnected",
                 "refresh", "click", "sleep3", "reprobe:unknown">>

\* C31: after the three initial checks the function goes on to look for
\* the Connect button whenever none of them reported connected, with the
\* status disconnected as with no status at all; a button that is found is
\* taken to the attempt loop, and the first attempt clicks it unless its own
\* probe says connected or a call raises.
C31_StartupActsOnUnknown ==
    /\ [][pc = "ctv_method3" =>
            \/ pc' = "ctv_find" /\ connection_status' \in {"None", "disconnected"}
            \/ pc' = "main_check" /\ connection_status' = "connected"]_vars
    /\ [](pc = "ctv_find" => connection_status \in {"None", "disconnected"})
    /\ [][(pc = "ctv_find" /\ connect_button') => pc' = "ctv_attempt_probe"]_vars
    /\ [][(pc = "ctv_attempt_click" /\ connect_button) => InTrace("click")']_vars

\* C31 witness: no check identified a state, and the first attempt has
\* clicked.
C31_Witness ==
    /\ connection_status = "None"
    /\ ~InMonitor
    /\ Len(trace) >= 5
    /\ SubSeq(trace, 1, 5) = <<"find_connect:found", "attempt", "probe:unknown",
                               "refresh", "click">>

Bound(x) == x \notin {"None", "unbound"}

\* C32: what connect_to_vpn returns is either the pair with both the
\* application and the window set or (None, None), and monitoring starts
\* exactly when both are set.
C32_PairOrNothing ==
    /\ [](pc = "main_check" =>
            \/ ret = <<"None", "None">>
            \/ Bound(ret[1]) /\ Bound(ret[2]))
    /\ [][pc = "main_check" =>
            /\ (Bound(ret[1]) /\ Bound(ret[2])) => pc' = "mon_cycle"
            /\ ~(Bound(ret[1]) /\ Bound(ret[2])) => pc' = "exited"]_vars
    /\ [][(pc' = "mon_cycle" /\ ~InMonitor) =>
            (pc = "main_check" /\ Bound(ret[1]) /\ Bound(ret[2])
             /\ Bound(app') /\ Bound(main_window'))]_vars

\* C32 witness: the window was bound when set_focus raised in the third
\* initialisation attempt; the handler still returns (None, None).
C32_Witness ==
    /\ pc = "main_check"
    /\ main_window = "window"
    /\ app = "app"
    /\ ret = <<"None", "None">>
    /\ InTrace("window_init:raises_late")

-----------------------------------------------------------------------------
(* Further claims about the classifiers, checked under SpecClassify *)

\* C33: in every result of identify_vpn_state the flag identified is set
\* exactly when the status is connected or disconnected, and the status is
\* unknown exactly when the flag is not set.
C33_IdentifiedAgreesWithStatus ==
    Classified =>
        /\ result.identified \in BOOLEAN
        /\ result.status \in {"connected", "disconnected", "unknown"}
        /\ result.identified <=> result.status \in {"connected", "disconnected"}
        /\ ~result.identified <=> result.status = "unknown"

\* C33 witness: rule 2 decided: an enabled Connect control gives an
\* identified, disconnected result although the text says connected.
C33_Witness ==
    /\ Classified
    /\ ConnectActive
    /\ ~DisconnectActive
    /\ Contains(FullText(evidence), "VPN Connected")
    /\ result.identified
    /\ result.status = "disconnected"

\* C34: when the Disconnect control is present, enabled or not or with an
\* enabled state that could not be read, and the Connect control is not
\* present and enabled, the result is connected whatever the text is.
C34_PresentDisconnectIsConnected ==
    (Classified /\ Flags.disconnect_button_found /\ ~ConnectActive) =>
        result.identified /\ result.status = "connected"

\* C34 witness: a disabled Disconnect control and a text that says
\* disconnected: the last resort decides connected.
C34_Witness ==
    /\ Classified
    /\ Flags.disconnect_button_found
    /\ ~Flags.disconnect_button_enabled
    /\ ~Flags.connect_button_found
    /\ evidence.window_text = "VPN Disconnected"
    /\ evidence.h_texts = <<>>
    /\ result.status = "connected"

(***************************************************************************)
(* Further claims about the startup loops                                  *)
(***************************************************************************)

WindowInitRaises == {"window_init:raises_early", "window_init:raises_late"}

WindowInitEvents ==
    {i \in 1..Len(trace) : Contains(trace[i], "window_init:")}

StartupPcs ==
    {"ctv_app", "ctv_window", "ctv_method1", "ctv_method2", "ctv_method3",
     "ctv_find", "ctv_final_check", "ctv_last_resort", "ctv_attempt_probe",
     "ctv_attempt_refresh", "ctv_attempt_click", "ctv_attempt_except",
     "ctv_initiated", "ctv_except"}

\* C35: window initialisation makes at most 3 attempts; an attempt is
\* followed by another one only when it raised; the first attempt that does
\* not raise leaves the loop for the first status check, also when nothing
\* could be verified; the third raising attempt goes to the handler, which
\* returns (None, None).
C35_WindowInitRetriesOnlyOnRaise ==
    /\ [](Cardinality(WindowInitEvents) <= 3)
    /\ [](pc = "ctv_window" => attempt \in 0..2 /\ WindowInitFailures = attempt)
    /\ [][(pc = "ctv_window" /\ pc' = "ctv_window")
            => LastEvent(trace') \in WindowInitRaises /\ attempt' = attempt + 1]_vars
    /\ [][(pc = "ctv_window" /\ LastEvent(trace') \notin WindowInitRaises)
            => pc' = "ctv_method1"]_vars
    /\ [][(pc = "ctv_window" /\ attempt = 2 /\ LastEvent(trace') \in WindowInitRaises)
            => pc' = "ctv_except"]_vars
    /\ [][pc = "ctv_except" => pc' = "main_check" /\ ret' = <<"None", "None">>]_vars
    /\ []((pc = "main_check" /\ WindowInitFailures = 3) => ret = <<"None", "None">>)

C35_Witness ==
    /\ pc = "ctv_method1"
    /\ trace = <<"app_connected", "window_init:raises_early",
                 "window_init:raises_late", "window_init:unverified">>

\* C36: connect_to_vpn terminates when every UI call returns or raises: at
\* most 3 window-initialisation attempts, at most 3 connect attempts, and
\* from every point of the function the return is eventually reached.
C36_ConnectTerminates ==
    /\ [](Cardinality(WindowInitEvents) <= 3)
    /\ [](~InMonitor => Count(trace, "attempt") <= 3)
    /\ [](pc \in StartupPcs => attempt \in 0..2)
    /\ [](pc \in StartupPcs => <>(pc = "main_check"))

C36_Witness ==
    /\ pc = "main_check"
    /\ Count(trace, "attempt") = 3
    /\ InTrace("initiated_logged")

-----------------------------------------------------------------------------
(* analyze_vpn_status_from_text on its own: every text of AnalyzeInputs *)

MaxAnalyzeTexts == 2

\* Lines 1216-1224: the function's own list of connected indicators.
text_connected_indicators ==
    <<"VPN Connected", "Disconnect", "Duration", "Bytes Received",
      "Bytes Sent", "IP Address", "Username">>

\* Lines 1227-1231: the function's own list of disconnected indicators.
text_disconnected_indicators ==
    <<"Not Connected", "VPN Disconnected", "Connect">>

\* Lines 1210-1263. The first component is the returned verdict (True, False
\* or None), the second the fixed part of the returned message.
analyze_vpn_status_from_text(text) ==
    IF text = "" THEN <<"None", "No window text found">>
    ELSE
    LET found_connected == Matched(text_connected_indicators, text)
        found_disconnected == Matched(text_disconnected_indicators, text)
        found_strong ==
            SelectSeq(strong_indicators, LAMBDA i : InList(i, found_connected))
    IN IF found_connected # <<>> /\ found_disconnected = <<>>
       THEN <<"True", "Connected">>
       ELSE IF found_disconnected # <<>> /\ found_connected = <<>>
       THEN <<"False", "Disconnected">>
       ELSE IF found_connected # <<>> /\ found_disconnected # <<>>
       THEN IF found_strong # <<>>
            THEN <<"True", "Likely connected despite mixed indicators">>
            ELSE <<"None", "Ambiguous status">>
       ELSE <<"None", "No clear VPN status indicators found">>

\* The texts the function is applied to: the empty text and up to
\* MaxAnalyzeTexts element texts joined by blanks.
AnalyzeInputs ==
    {[NoEvidence EXCEPT !.h_texts = t] :
        t \in SeqUpTo(TextVocabulary, MaxAnalyzeTexts)}

AnalyzedText == Join(evidence.h_texts)

AnalyzeInit ==
    /\ ProgramInit
    /\ evidence \in AnalyzeInputs
    /\ result = InitialResult

Analyze ==
    /\ pc = "ctv_app"
    /\ result = InitialResult
    /\ result' = analyze_vpn_status_from_text(AnalyzedText)
    /\ pc' = "analyzed"
    /\ UNCHANGED <<app, main_window, attempt, connection_status, connect_button,
                   vpn_state, ret, exit_code, ALWAYS_SET_FOCUS,
                   consecutive_focus_needed, need_to_set_focus,
                   need_to_click_connect, trace, light_hist, evidence>>

AnalyzeNext == Analyze

SpecAnalyze == AnalyzeInit /\ [][AnalyzeNext]_vars

-----------------------------------------------------------------------------
(* Claims about analyze_vpn_status_from_text, checked under SpecAnalyze *)

Analyzed == pc = "analyzed"

ConnectedSideMatched == Matched(text_connected_indicators, AnalyzedText) # <<>>

DisconnectedSideMatched ==
    Matched(text_disconnected_indicators, AnalyzedText) # <<>>

NamedStrongMatched ==
    \E s \in {"VPN Connected", "Duration", "Bytes Received", "IP Address",
              "Username"} : Contains(AnalyzedText, s)

\* C37: analyze_vpn_status_from_text returns None for the empty text, True
\* when only connected indicators are matched, False when only disconnected
\* indicators are matched, and with both sides matched True exactly when one
\* of 'VPN Connected', 'Duration', 'Bytes Received', 'IP Address', 'Username'
\* is matched, None otherwise.
C37_AnalyzeTextVerdict ==
    Analyzed =>
        /\ AnalyzedText = "" => result[1] = "None"
        /\ (ConnectedSideMatched /\ ~DisconnectedSideMatched) => result[1] = "True"
        /\ (DisconnectedSideMatched /\ ~ConnectedSideMatched) => result[1] = "False"
        /\ (ConnectedSideMatched /\ DisconnectedSideMatched) =>
                /\ result[1] \in {"True", "None"}
                /\ result[1] = "True" <=> NamedStrongMatched

C37_Witness ==
    /\ Analyzed
    /\ AnalyzedText = "Bytes Sent Connect"
    /\ ConnectedSideMatched /\ DisconnectedSideMatched /\ ~NamedStrongMatched
    /\ result[1] = "None"

====
